---------------------------- MODULE Spec2Model ----------------------------
(***************************************************************************)
(* Text-2-SQL backend: the generation-to-execution pipeline.               *)
(*                                                                         *)
(*   app/backend/services/llm_service.py      clean_sql_output,            *)
(*       validate_sql_query, optimize_sql_query, generate_sql_query        *)
(*   app/backend/services/database_service.py get_azure_connection,        *)
(*       execute_sql_query                                                 *)
(*   app/backend/main.py                       run_query                   *)
(*                                                                         *)
(* Texts are sequences of one-character strings, so that the regular       *)
(* expressions and the substring tests of the code are computed character  *)
(* by character.                                                           *)
(***************************************************************************)
EXTENDS Integers, Sequences, FiniteSets, TLC

(***************************************************************************)
(* Characters and Python's str primitives                                  *)
(***************************************************************************)

\* The characters str.strip() and the regex class \s treat as whitespace.
Whitespace == {" ", "\n", "\t"}

\* The regex class \d.
Digits == {"0", "1", "2", "3", "4", "5", "6", "7", "8", "9"}

UpperChars ==
  <<"A", "B", "C", "D", "E", "F", "G", "H", "I", "J", "K", "L", "M",
    "N", "O", "P", "Q", "R", "S", "T", "U", "V", "W", "X", "Y", "Z">>

LowerChars ==
  <<"a", "b", "c", "d", "e", "f", "g", "h", "i", "j", "k", "l", "m",
    "n", "o", "p", "q", "r", "s", "t", "u", "v", "w", "x", "y", "z">>

\* str.lower() on one character.
LowerChar(c) ==
  IF \E i \in 1..Len(UpperChars) : UpperChars[i] = c
    THEN LowerChars[CHOOSE i \in 1..Len(UpperChars) : UpperChars[i] = c]
    ELSE c

\* str.lower()
Lower(s) == [i \in 1..Len(s) |-> LowerChar(s[i])]

\* s[i:] with a 1-based i
From(s, i) == SubSeq(s, i, Len(s))

\* pat occurs in s at position i, compared exactly.
OccursAt(s, i, pat) ==
  /\ i >= 1
  /\ i + Len(pat) - 1 <= Len(s)
  /\ \A k \in 1..Len(pat) : s[i + k - 1] = pat[k]

\* pat (given in lower case) occurs in s at position i, compared as
\* re.IGNORECASE compares.
OccursAtNoCase(s, i, pat) ==
  /\ i >= 1
  /\ i + Len(pat) - 1 <= Len(s)
  /\ \A k \in 1..Len(pat) : LowerChar(s[i + k - 1]) = pat[k]

\* Python's `pat in s`
Contains(s, pat) == \E i \in 1..(Len(s) - Len(pat) + 1) : OccursAt(s, i, pat)

\* The number of leading whitespace characters of s from position i on.
RECURSIVE WsRun(_, _)
WsRun(s, i) ==
  IF i <= Len(s) /\ s[i] \in Whitespace THEN 1 + WsRun(s, i + 1) ELSE 0

\* str.lstrip()
LStrip(s) == From(s, WsRun(s, 1) + 1)

\* str.rstrip(chars): drops the longest suffix made of characters of chars.
RECURSIVE RStripSet(_, _)
RStripSet(s, chars) ==
  IF Len(s) > 0 /\ s[Len(s)] \in chars
    THEN RStripSet(SubSeq(s, 1, Len(s) - 1), chars)
    ELSE s

\* str.strip()
Strip(s) == RStripSet(LStrip(s), Whitespace)

\* str.replace(pat, "") for a non-empty pat: leftmost occurrences, scanned
\* once from left to right without rescanning the result.
RECURSIVE Remove(_, _)
Remove(s, pat) ==
  IF Len(s) = 0 THEN s
  ELSE IF OccursAt(s, 1, pat) THEN Remove(From(s, Len(pat) + 1), pat)
  ELSE <<s[1]>> \o Remove(From(s, 2), pat)

(***************************************************************************)
(* Literals of llm_service.py                                              *)
(***************************************************************************)

kwSelect == <<"s", "e", "l", "e", "c", "t">>
kwWith == <<"w", "i", "t", "h">>
kwFrom == <<"f", "r", "o", "m">>
kwTop == <<"t", "o", "p">>
kwSql == <<"s", "q", "l">>
kwSqlite == <<"s", "q", "l", "i", "t", "e">>
\* The backquote character (U+0060), which a TLA+ string cannot hold.
Backquote == "BACKQUOTE"
Fence == <<Backquote, Backquote, Backquote>>
SqlQueryPrefix == <<"S", "Q", "L", " ", "Q", "u", "e", "r", "y", ":">>
GeneratedSqlPrefix ==
  <<"G", "e", "n", "e", "r", "a", "t", "e", "d", " ", "S", "Q", "L", ":">>
SelectTop10 ==
  <<"S", "E", "L", "E", "C", "T", " ", "T", "O", "P", " ", "1", "0", " ">>

\* forbidden = ["delete", "update", "insert", "drop", "alter"]
forbidden ==
  { <<"d", "e", "l", "e", "t", "e">>,
    <<"u", "p", "d", "a", "t", "e">>,
    <<"i", "n", "s", "e", "r", "t">>,
    <<"d", "r", "o", "p">>,
    <<"a", "l", "t", "e", "r">> }

\* The test without .lower(): only lower-case spellings are found.
HasForbidden_CaseSensitive(s) == \E word \in forbidden : Contains(s, word)

\* The test with "alter" left out of the list.
HasForbidden_NoAlter(s) ==
  \E word \in forbidden \ {<<"a", "l", "t", "e", "r">>} :
    Contains(Lower(s), word)

\* any(word in query.lower() for word in forbidden)
HasForbidden(s) == \E word \in forbidden : Contains(Lower(s), word)

(***************************************************************************)
(* clean_sql_output                                                        *)
(***************************************************************************)

\* re.sub(r"```(sql|sqlite)?", "", text, flags=re.IGNORECASE): at each fence
\* the optional group takes "sql" when it follows (the first alternative
\* wins, so of "sqlite" only "sql" is consumed).
RECURSIVE SubFences(_)
SubFences(s) ==
  IF Len(s) = 0 THEN s
  ELSE IF OccursAt(s, 1, Fence)
    THEN IF OccursAtNoCase(s, 4, kwSql)
           THEN SubFences(From(s, 7))
           ELSE SubFences(From(s, 4))
  ELSE <<s[1]>> \o SubFences(From(s, 2))

\* (SELECT|WITH)\s+ matches at position i.
StmtStartAt(s, i) ==
  \/ OccursAtNoCase(s, i, kwSelect) /\ WsRun(s, i + 6) >= 1
  \/ OccursAtNoCase(s, i, kwWith) /\ WsRun(s, i + 4) >= 1

\* re.search(r"(SELECT|WITH)\s+.*", text, re.IGNORECASE | re.DOTALL):
\* group(0) of the leftmost match, or the stripped text when there is none.
ExtractStmt(s) ==
  IF \E i \in 1..Len(s) : StmtStartAt(s, i)
    THEN From(s, CHOOSE i \in 1..Len(s) :
                   /\ StmtStartAt(s, i)
                   /\ \A j \in 1..(i - 1) : ~StmtStartAt(s, j))
    ELSE Strip(s)

\* re.sub(r"^sqlite\s*", "", text, flags=re.IGNORECASE)
SubSqlitePrefix(s) ==
  IF OccursAtNoCase(s, 1, kwSqlite) THEN From(s, 7 + WsRun(s, 7)) ELSE s

clean_sql_output(raw_text) ==
  IF Len(raw_text) = 0 THEN <<>>
  ELSE LET text1 == Strip(raw_text)
           text2 == SubFences(text1)
           text3 == Remove(Remove(Remove(text2, Fence), SqlQueryPrefix),
                           GeneratedSqlPrefix)
           text4 == ExtractStmt(text3)
           text5 == Strip(RStripSet(Strip(text4), {";"}))
       IN  Strip(SubSqlitePrefix(text5))

(***************************************************************************)
(* validate_sql_query                                                      *)
(***************************************************************************)

\* The pattern without its FROM part: ^\s*(SELECT|WITH)\s+.+
StructureWith_NoFrom(q, kw) ==
  LET p == WsRun(q, 1)
      a == p + 1 + Len(kw)
  IN  /\ OccursAtNoCase(q, p + 1, kw)
      /\ a + 1 <= Len(q)
      /\ q[a] \in Whitespace

\* re.match(r"^\s*(SELECT|WITH)\s+.+\s+FROM\s+.+", q, re.IGNORECASE | re.DOTALL)
\* with the keyword kw: a is the position after the keyword and j the position
\* of FROM; q[a..j-1] must be whitespace, at least one character, whitespace.
StructureWith(q, kw) ==
  LET p == WsRun(q, 1)
      a == p + 1 + Len(kw)
  IN  /\ OccursAtNoCase(q, p + 1, kw)
      /\ a <= Len(q)
      /\ q[a] \in Whitespace
      /\ \E j \in (a + 3)..Len(q) :
           /\ q[j - 1] \in Whitespace
           /\ OccursAtNoCase(q, j, kwFrom)
           /\ j + 5 <= Len(q)
           /\ q[j + 4] \in Whitespace

BasicStructure(q) == StructureWith(q, kwSelect) \/ StructureWith(q, kwWith)

validate_sql_query(sql_query) ==
  LET q == Strip(sql_query)
  IN  IF ~BasicStructure(q) THEN FALSE
      ELSE IF HasForbidden(q) THEN FALSE
      ELSE TRUE

(***************************************************************************)
(* optimize_sql_query                                                      *)
(***************************************************************************)

\* top\s+\d+ matches at position i (case-insensitively).
TopAt(s, i) ==
  /\ OccursAtNoCase(s, i, kwTop)
  /\ WsRun(s, i + 3) >= 1
  /\ i + 3 + WsRun(s, i + 3) <= Len(s)
  /\ s[i + 3 + WsRun(s, i + 3)] \in Digits

\* The pattern without (?i): only SELECT in upper case is matched.
NeedsTop_CaseSensitive(query) ==
  /\ OccursAt(query, 1, SubSeq(SelectTop10, 1, 6))
  /\ \E n \in 1..WsRun(query, 7) : ~TopAt(query, 7 + n)

\* re.match(r"(?i)^select\s+(?!top\s+\d+)", query): \s+ may give back
\* whitespace, so the match succeeds when the lookahead fails after any
\* non-empty prefix of the whitespace run.
NeedsTop(query) ==
  /\ OccursAtNoCase(query, 1, kwSelect)
  /\ \E n \in 1..WsRun(query, 7) : ~TopAt(query, 7 + n)

\* re.sub(r"(?i)^select\s+", "SELECT TOP 10 ", query, count=1)
InsertTop(query) == SelectTop10 \o From(query, 7 + WsRun(query, 7))

\* The value "" stands for the rejection of an unsafe statement.
optimize_sql_query(sql_query) ==
  LET query == RStripSet(Strip(sql_query), {";"})
  IN  IF HasForbidden(query) THEN <<>>
      ELSE (IF NeedsTop(query) THEN InsertTop(query) ELSE query) \o <<";">>

(***************************************************************************)
(* The texts the external model may answer with.  A response is            *)
(*     preamble, leading keyword, whitespace, row cap, body, ending        *)
(* and every part may be empty.                                            *)
(***************************************************************************)

\* The longest run of blanks between the leading keyword and what follows.
MaxWs == 2

\* Nothing, a fence with a language tag, prose.
Preambles ==
  { <<>>,
    <<Backquote, Backquote, Backquote, "s", "q", "l", "\n">>,
    <<"d", "r", "o", "p", " ", "i", "t", ":", " ">> }

\* The leading keyword, if any.
Heads ==
  { <<>>,
    <<"S", "E", "L", "E", "C", "T">>,
    <<"S", "e", "L", "e", "c", "t">>,
    <<"W", "I", "T", "H">> }

\* The whitespace after the leading keyword: 0..MaxWs blanks, or a newline.
Gaps == { [i \in 1..n |-> " "] : n \in 0..MaxWs } \cup { <<"\n">> }

\* A row cap declared by the model, if any.
Caps ==
  { <<>>,
    <<"T", "O", "P", " ", "5", " ">>,
    <<"t", "o", "p", "\n", "1", "0", " ">> }

\* The rest of the statement.
Bodies ==
  { <<>>,
    <<"x", " ", "F", "R", "O", "M", " ", "t">>,
    <<"c", " ", "A", "S", " ", "(", "S", "E", "L", "E", "C", "T", " ",
       "x", " ", "F", "R", "O", "M", " ", "t", ")", " ", "S", "E", "L",
       "E", "C", "T", " ", "x", " ", "F", "R", "O", "M", " ", "c">>,
    <<"D", "R", "O", "P", " ", "T", "A", "B", "L", "E", " ", "p", "a",
       "t", "i", "e", "n", "t", "s">>,
    <<"x", " ", "F", "R", "O", "M", " ", "t", ";", " ", "D", "e", "l",
       "e", "t", "e", " ", "F", "R", "O", "M", " ", "t">> }

\* A statement terminator and a closing fence, if any.
Endings ==
  { <<>>,
    <<";", "\n", Backquote, Backquote, Backquote>> }

Responses ==
  { pre \o head \o gap \o cap \o body \o ending :
      pre \in Preambles, head \in Heads, gap \in Gaps, cap \in Caps,
      body \in Bodies, ending \in Endings }

\* A model that answers with one of five texts: a fenced statement that is
\* accepted, a statement the rewriter rejects, no text, a statement the
\* validator rejects, and a second statement that is accepted.
ShortAnswers ==
  { <<Backquote, Backquote, Backquote, "s", "q", "l", "\n", "S", "E", "L",
      "E", "C", "T", " ", "x", " ", "F", "R", "O", "M", " ", "t", "\n",
      Backquote, Backquote, Backquote>>,
    <<"D", "R", "O", "P", " ", "T", "A", "B", "L", "E", " ", "t">>,
    <<>>,
    <<"S", "E", "L", "E", "C", "T", " ", "1">>,
    <<"S", "E", "L", "E", "C", "T", " ", "T", "O", "P", " ", "5", " ",
      "y", " ", "F", "R", "O", "M", " ", "u", ";">> }

\* The texts of a model by the name of its repertoire.
Repertoire(name) == IF name = "short" THEN ShortAnswers ELSE Responses

(***************************************************************************)
(* The requests and the values they handle                                 *)
(***************************************************************************)

\* The invocations of run_query.  Every local variable below is one per
\* invocation.
Requests == {"a", "b"}

\* The largest max_retries generate_sql_query is called with (default 3).
MaxGenRetries == 3

\* The largest max_retries get_azure_connection is called with (default 3).
MaxConnRetries == 3

\* retry_delay of get_azure_connection, in seconds.
retry_delay == 5

\* The most rows the database answers with.
MaxRows == 2

\* Python's None, and a text that is not None.
None == [none |-> TRUE, val |-> <<>>]
Some(v) == [none |-> FALSE, val |-> v]

\* What execute_sql_query returns: None, or {"columns": ..., "rows": ...}.
NoResult == [none |-> TRUE, columns |-> <<>>, rows |-> <<>>]
ResultOf(columns, rows) == [none |-> FALSE, columns |-> columns, rows |-> rows]

\* Python's truth value of an optional text: `not x` is ~Truthy(x).
Truthy(x) == ~x.none /\ Len(x.val) > 0

\* os.getenv of the four settings get_azure_connection reads.
Credentials ==
  {"AZURE_SQL_SERVER", "AZURE_SQL_DATABASE", "AZURE_SQL_USER",
   "AZURE_SQL_PASSWORD"}

\* What cursor.description and cursor.fetchall() give for a statement:
\* the column names and up to MaxRows rows, one value per column.
DbAnswers ==
  { [columns |-> <<"region", "count">>,
     rows |-> [i \in 1..n |-> <<i, 10 * i>>]] : n \in 0..MaxRows }

\* dict(zip(columns, row)): zip stops at the shorter of the two, and a
\* later pair replaces an earlier one with the same key.
DictZip(columns, row) ==
  LET n == IF Len(columns) < Len(row) THEN Len(columns) ELSE Len(row)
  IN  [k \in {columns[i] : i \in 1..n} |->
         row[CHOOSE i \in 1..n :
               /\ columns[i] = k
               /\ \A j \in (i + 1)..n : columns[j] # k]]

\* [dict(zip(columns, row)) for row in rows]
FormatResults(columns, rows) ==
  [i \in 1..Len(rows) |-> DictZip(columns, rows[i])]

\* The HTTP answers of run_query.
NoResponse == [status |-> 0, detail |-> "", sql_query |-> None, results |-> <<>>]
QueryResponse(sql, results) ==
  [status |-> 200, detail |-> "", sql_query |-> Some(sql), results |-> results]
HTTPException(status_code, detail) ==
  [status |-> status_code, detail |-> detail, sql_query |-> None,
   results |-> <<>>]

(***************************************************************************)
(* State                                                                   *)
(***************************************************************************)

VARIABLES
  pc,            \* where each request is in run_query and its callees
  schema_file,   \* load_schema: the schema file as it was found
  max_retries,   \* generate_sql_query: the parameter max_retries
  attempt,       \* generate_sql_query: the loop variable
  raw_sql,       \* generate_sql_query: the model's text of this attempt
  sql_query,     \* generate_sql_query: the statement being processed
  stages,        \* the stages this attempt has run so far, in order
  modelCalls,    \* how many times model.generate_content was called
  failures,      \* how many attempts ended without a statement
  generated,     \* run_query: what generate_sql_query returned
  credentials,   \* get_azure_connection: how os.getenv found the settings
  conn_retries,  \* get_azure_connection: the parameter max_retries
  conn_attempt,  \* get_azure_connection: the loop variable
  connAttempts,  \* how many times pyodbc.connect was called
  delays,        \* how many times time.sleep was called
  slept,         \* the seconds slept in all
  connection,    \* "none", "open" or "closed"
  executed,      \* the statements given to cursor.execute, in order
  answer,        \* execute_sql_query: columns and rows read so far
  exec_error,    \* execute_sql_query: the exception e its except clause got
  result,        \* run_query: what execute_sql_query returned
  response,      \* what run_query answered
  model_texts,   \* the repertoire of the model: "any" or "short"
  retry_args,    \* the values the two max_retries parameters may be bound to
  fn_arg,        \* a text the three text functions are applied to directly
  fn_arg_type,   \* the type of the argument: "str", "NoneType" or "dict"
  fn_cleaned,    \* clean_sql_output(fn_arg), once computed
  fn_rewritten,  \* optimize_sql_query(fn_arg), once computed
  fn_rewritten2, \* optimize_sql_query of fn_rewritten, once computed
  fn_valid,      \* validate_sql_query(fn_arg), once computed
  fn_raised,     \* the functions that ended with an exception
  fn_result,     \* a result the formatting of run_query is applied to
  fn_formatted   \* formatted_results for fn_result, once computed

genVars ==
  <<schema_file, max_retries, attempt, raw_sql, sql_query, stages, modelCalls, failures,
    generated>>
dbVars ==
  <<credentials, conn_retries, conn_attempt, connAttempts, delays, slept, connection,
    executed, answer, exec_error, result>>
fnVars ==
  <<fn_arg, fn_arg_type, fn_cleaned, fn_rewritten, fn_rewritten2, fn_valid,
    fn_raised, fn_result, fn_formatted>>
envVars == <<model_texts, retry_args>>
vars == <<pc, genVars, dbVars, response, envVars, fnVars>>

NoAnswer == [columns |-> <<>>, rows |-> <<>>]

\* No exception, and what the database driver raises for a statement it
\* cannot run or a connection it lost.
NoError == ""
BackendErrors ==
  {"42S02: Invalid object name", "08S01: Communication link failure"}

\* max_retries of generate_sql_query and of get_azure_connection bound to
\* any value up to the largest.
AnyRetries ==
  [generate |-> 1..MaxGenRetries, connect |-> 1..MaxConnRetries]

\* The state in which the requests of `active` have arrived.
InitWith(active) ==
  /\ pc = [r \in Requests |-> IF r \in active THEN "run_query" ELSE "idle"]
  /\ schema_file = [r \in Requests |-> "unread"]
  /\ max_retries = [r \in Requests |-> 0]
  /\ attempt = [r \in Requests |-> 0]
  /\ raw_sql = [r \in Requests |-> <<>>]
  /\ sql_query = [r \in Requests |-> <<>>]
  /\ stages = [r \in Requests |-> <<>>]
  /\ modelCalls = [r \in Requests |-> 0]
  /\ failures = [r \in Requests |-> 0]
  /\ generated = [r \in Requests |-> None]
  /\ credentials = [r \in Requests |-> "unread"]
  /\ conn_retries = [r \in Requests |-> 0]
  /\ conn_attempt = [r \in Requests |-> 0]
  /\ connAttempts = [r \in Requests |-> 0]
  /\ delays = [r \in Requests |-> 0]
  /\ slept = [r \in Requests |-> 0]
  /\ connection = [r \in Requests |-> "none"]
  /\ executed = [r \in Requests |-> <<>>]
  /\ answer = [r \in Requests |-> NoAnswer]
  /\ exec_error = [r \in Requests |-> NoError]
  /\ result = [r \in Requests |-> NoResult]
  /\ response = [r \in Requests |-> NoResponse]

\* One request arrives; no function is applied on its own.
Init ==
  /\ InitWith({"a"})
  /\ model_texts = "any"
  /\ retry_args = AnyRetries
  /\ fn_arg = <<>>
  /\ fn_arg_type = "str"
  /\ fn_cleaned = None
  /\ fn_rewritten = None
  /\ fn_rewritten2 = None
  /\ fn_valid = "unknown"
  /\ fn_raised = {}
  /\ fn_result = NoResult
  /\ fn_formatted = None

(***************************************************************************)
(* generate_sql_query                                                      *)
(***************************************************************************)

\* run_query calls generate_sql_query, which binds max_retries.
CallGenerate(r) ==
  /\ pc[r] = "run_query"
  /\ \E n \in retry_args.generate :
       max_retries' = [max_retries EXCEPT ![r] = n]
  /\ pc' = [pc EXCEPT ![r] = "load_schema"]
  /\ UNCHANGED <<envVars, fnVars, schema_file, attempt, raw_sql, sql_query, stages,
                 modelCalls, failures, generated, dbVars, response>>

\* What the HTTP answer says of a schema file that is not there, and of one
\* json.load cannot read.
SchemaFault(file) ==
  IF file = "missing" THEN "Schema file not found" ELSE "JSONDecodeError"

\* The failure is swallowed and generation goes on without a schema.
LoadSchema_Swallowed(r) ==
  /\ pc[r] = "load_schema"
  /\ \E file \in {"ok", "missing", "unparsable"} :
       schema_file' = [schema_file EXCEPT ![r] = file]
  /\ attempt' = [attempt EXCEPT ![r] = 1]
  /\ pc' = [pc EXCEPT ![r] = "gen_loop"]
  /\ UNCHANGED <<envVars, fnVars, max_retries, raw_sql, sql_query, stages, modelCalls,
                 failures, generated, dbVars, response>>

\* load_schema, before the loop and outside its try: the file is read, or it
\* is missing or json.load fails and the exception reaches run_query, whose
\* `except Exception` answers 500 with the exception's text.
LoadSchema(r) ==
  /\ pc[r] = "load_schema"
  /\ \E file \in {"ok", "missing", "unparsable"} :
       /\ schema_file' = [schema_file EXCEPT ![r] = file]
       /\ IF file = "ok"
            THEN /\ attempt' = [attempt EXCEPT ![r] = 1]
                 /\ pc' = [pc EXCEPT ![r] = "gen_loop"]
                 /\ UNCHANGED response
            ELSE /\ response' = [response EXCEPT ![r] =
                      HTTPException(500, SchemaFault(file))]
                 /\ pc' = [pc EXCEPT ![r] = "done"]
                 /\ UNCHANGED attempt
  /\ UNCHANGED <<envVars, fnVars, max_retries, raw_sql, sql_query, stages, modelCalls,
                 failures, generated, dbVars>>

\* The loop bound off by one: range(1, max_retries + 2).
HasAttempt_OneMore(r) == attempt[r] <= max_retries[r] + 1

\* for attempt in range(1, max_retries + 1): the loop has an attempt left.
HasAttempt(r) == attempt[r] <= max_retries[r]

\* A failed attempt that is retried without being counted.
NextAttempt_NotCounted(r, stage) ==
  /\ failures' = [failures EXCEPT ![r] = @ + 1]
  /\ raw_sql' = [raw_sql EXCEPT ![r] = <<>>]
  /\ sql_query' = [sql_query EXCEPT ![r] = <<>>]
  /\ stages' = [stages EXCEPT ![r] = stage]
  /\ pc' = [pc EXCEPT ![r] = "gen_loop"]
  /\ UNCHANGED attempt

\* The attempt ends without a statement (`continue`, a failed validation or
\* the except clause) and the loop goes to the next one.  raw_sql and
\* sql_query are assigned again before they are next read.
NextAttempt(r, stage) ==
  /\ attempt' = [attempt EXCEPT ![r] = @ + 1]
  /\ failures' = [failures EXCEPT ![r] = @ + 1]
  /\ raw_sql' = [raw_sql EXCEPT ![r] = <<>>]
  /\ sql_query' = [sql_query EXCEPT ![r] = <<>>]
  /\ stages' = [stages EXCEPT ![r] = stage]
  /\ pc' = [pc EXCEPT ![r] = "gen_loop"]

\* model.generate_content(prompt) answers and response.text is stripped.
ModelResponse(r) ==
  /\ pc[r] = "gen_loop"
  /\ HasAttempt(r)
  /\ \E text \in Repertoire(model_texts) :
       raw_sql' = [raw_sql EXCEPT ![r] = Strip(text)]
  /\ modelCalls' = [modelCalls EXCEPT ![r] = @ + 1]
  /\ stages' = [stages EXCEPT ![r] = <<"model">>]
  /\ pc' = [pc EXCEPT ![r] = "sanitize"]
  /\ UNCHANGED <<envVars, fnVars, schema_file, max_retries, attempt, sql_query, failures, generated,
                 dbVars, response>>

\* model.generate_content(prompt), or reading response.text, raises: the
\* except clause of the attempt logs it.
ModelFault(r) ==
  /\ pc[r] = "gen_loop"
  /\ HasAttempt(r)
  /\ modelCalls' = [modelCalls EXCEPT ![r] = @ + 1]
  /\ NextAttempt(r, <<"model">>)
  /\ UNCHANGED <<envVars, fnVars, schema_file, max_retries, generated, dbVars, response>>

\* sql_query = clean_sql_output(raw_sql); if not sql_query: continue
Sanitize(r) ==
  /\ pc[r] = "sanitize"
  /\ LET cleaned == clean_sql_output(raw_sql[r])
         ran == Append(stages[r], "sanitize")
     IN  IF Len(cleaned) = 0
           THEN NextAttempt(r, ran)
           ELSE /\ sql_query' = [sql_query EXCEPT ![r] = cleaned]
                /\ stages' = [stages EXCEPT ![r] = ran]
                /\ pc' = [pc EXCEPT ![r] = "rewrite"]
                /\ UNCHANGED <<attempt, raw_sql, failures>>
  /\ UNCHANGED <<envVars, fnVars, schema_file, max_retries, modelCalls, generated, dbVars, response>>

\* The rewriter's result goes to the validator whatever it is.
Rewrite_GoesOn(r) ==
  /\ pc[r] = "rewrite"
  /\ sql_query' = [sql_query EXCEPT ![r] = optimize_sql_query(sql_query[r])]
  /\ stages' = [stages EXCEPT ![r] = Append(@, "rewrite")]
  /\ pc' = [pc EXCEPT ![r] = "validate"]
  /\ UNCHANGED <<envVars, fnVars, schema_file, max_retries, attempt, raw_sql, modelCalls,
                 failures, generated, dbVars, response>>

\* sql_query = optimize_sql_query(sql_query); if not sql_query: continue
Rewrite(r) ==
  /\ pc[r] = "rewrite"
  /\ LET optimized == optimize_sql_query(sql_query[r])
         ran == Append(stages[r], "rewrite")
     IN  IF Len(optimized) = 0
           THEN NextAttempt(r, ran)
           ELSE /\ sql_query' = [sql_query EXCEPT ![r] = optimized]
                /\ stages' = [stages EXCEPT ![r] = ran]
                /\ pc' = [pc EXCEPT ![r] = "validate"]
                /\ UNCHANGED <<attempt, raw_sql, failures>>
  /\ UNCHANGED <<envVars, fnVars, schema_file, max_retries, modelCalls, generated, dbVars, response>>

\* A valid statement is recorded, but the loop goes on instead of returning.
Validate_KeepsLooping(r) ==
  /\ pc[r] = "validate"
  /\ IF validate_sql_query(sql_query[r])
       THEN generated' = [generated EXCEPT ![r] = Some(sql_query[r])]
       ELSE UNCHANGED generated
  /\ attempt' = [attempt EXCEPT ![r] = @ + 1]
  /\ failures' = [failures EXCEPT ![r] =
       IF validate_sql_query(sql_query[r]) THEN @ ELSE @ + 1]
  /\ stages' = [stages EXCEPT ![r] = Append(@, "validate")]
  /\ pc' = [pc EXCEPT ![r] = "gen_loop"]
  /\ UNCHANGED <<envVars, fnVars, schema_file, max_retries, raw_sql, sql_query, modelCalls, dbVars,
                 response>>

\* if validate_sql_query(sql_query): return sql_query
\* (raw_sql ends with the call that returns).
Validate(r) ==
  /\ pc[r] = "validate"
  /\ LET ran == Append(stages[r], "validate")
     IN  IF validate_sql_query(sql_query[r])
           THEN /\ generated' = [generated EXCEPT ![r] = Some(sql_query[r])]
                /\ stages' = [stages EXCEPT ![r] = ran]
                /\ raw_sql' = [raw_sql EXCEPT ![r] = <<>>]
                /\ pc' = [pc EXCEPT ![r] = "generated"]
                /\ UNCHANGED <<attempt, sql_query, failures>>
           ELSE /\ NextAttempt(r, ran)
                /\ UNCHANGED generated
  /\ UNCHANGED <<envVars, fnVars, schema_file, max_retries, modelCalls, dbVars, response>>

\* The loop ends without a return: return None.
Exhausted(r) ==
  /\ pc[r] = "gen_loop"
  /\ ~HasAttempt(r)
  /\ generated' = [generated EXCEPT ![r] = None]
  /\ pc' = [pc EXCEPT ![r] = "generated"]
  /\ UNCHANGED <<envVars, fnVars, schema_file, max_retries, attempt, raw_sql, sql_query, stages,
                 modelCalls, failures, dbVars, response>>

(***************************************************************************)
(* run_query, after generate_sql_query                                     *)
(***************************************************************************)

\* The statement handed over without its terminator.
StatementToExecute_Unterminated(r) == RStripSet(generated[r].val, {";"})

\* The statement run_query hands to execute_sql_query.
StatementToExecute(r) == generated[r].val

\* if not sql_query: raise HTTPException(400, ...); otherwise
\* execute_sql_query(sql_query) is called, and get_azure_connection() in it,
\* which binds its max_retries.
CheckGenerated(r) ==
  /\ pc[r] = "generated"
  /\ IF ~Truthy(generated[r])
       THEN /\ response' = [response EXCEPT ![r] =
                 HTTPException(400, "Failed to generate SQL query.")]
            /\ pc' = [pc EXCEPT ![r] = "done"]
            /\ UNCHANGED conn_retries
       ELSE /\ \E n \in retry_args.connect :
                 conn_retries' = [conn_retries EXCEPT ![r] = n]
            /\ pc' = [pc EXCEPT ![r] = "get_connection"]
            /\ UNCHANGED response
  /\ UNCHANGED <<envVars, fnVars, genVars, credentials, conn_attempt, connAttempts, delays, slept,
                 connection, executed, answer, exec_error, result>>

(***************************************************************************)
(* get_azure_connection                                                    *)
(***************************************************************************)

\* get_azure_connection returns None, so execute_sql_query returns None.
ConnectionNone(r) ==
  /\ result' = [result EXCEPT ![r] = NoResult]
  /\ pc' = [pc EXCEPT ![r] = "executed"]

\* The test made on the server name alone.
AllSet_ServerOnly(env) == env["AZURE_SQL_SERVER"]

\* all([server, database, username, password]): env[c] is the truth value
\* of what os.getenv(c) gave, false for None and for "".
AllSet(env) == \A c \in Credentials : env[c]

\* The four os.getenv reads: if not all([...]): return None
ReadCredentials(r) ==
  /\ pc[r] = "get_connection"
  /\ \E env \in [Credentials -> BOOLEAN] :
       /\ credentials' = [credentials EXCEPT ![r] =
            IF \E c \in Credentials : ~env[c]
              THEN "incomplete" ELSE "complete"]
       /\ IF AllSet(env)
            THEN /\ conn_attempt' = [conn_attempt EXCEPT ![r] = 1]
                 /\ pc' = [pc EXCEPT ![r] = "connect"]
                 /\ UNCHANGED result
            ELSE /\ ConnectionNone(r)
                 /\ UNCHANGED conn_attempt
  /\ UNCHANGED <<envVars, fnVars, genVars, conn_retries, connAttempts,
                 delays, slept, connection, executed, answer, exec_error,
                 response>>

\* for attempt in range(1, max_retries + 1)
HasConnAttempt(r) == conn_attempt[r] <= conn_retries[r]

\* One connection kept for all requests: a successful connect opens it for
\* every one of them.
ConnectOk_Shared(r) ==
  /\ pc[r] = "connect"
  /\ HasConnAttempt(r)
  /\ connAttempts' = [connAttempts EXCEPT ![r] = @ + 1]
  /\ connection' = [q \in Requests |-> "open"]
  /\ pc' = [pc EXCEPT ![r] = "execute"]
  /\ UNCHANGED <<envVars, fnVars, genVars, credentials, conn_retries, conn_attempt, delays,
                 slept, executed, answer, exec_error, result, response>>

\* pyodbc.connect(conn_str) succeeds: return connection
ConnectOk(r) ==
  /\ pc[r] = "connect"
  /\ HasConnAttempt(r)
  /\ connAttempts' = [connAttempts EXCEPT ![r] = @ + 1]
  /\ connection' = [connection EXCEPT ![r] = "open"]
  /\ pc' = [pc EXCEPT ![r] = "execute"]
  /\ UNCHANGED <<envVars, fnVars, genVars, credentials, conn_retries, conn_attempt, delays, slept,
                 executed, answer, exec_error, result, response>>

\* The test off by one: the last attempt is never made.
RetryConnect_GivesUpEarly(r) == conn_attempt[r] < conn_retries[r] - 1

\* No test at all: a sleep follows every failed attempt.
RetryConnect_Always(r) == TRUE

\* if attempt < max_retries (in the except clause)
RetryConnect(r) == conn_attempt[r] < conn_retries[r]

\* pyodbc.connect(conn_str) raises: sleep and go on, or return None after the
\* last attempt.
ConnectFail(r) ==
  /\ pc[r] = "connect"
  /\ HasConnAttempt(r)
  /\ connAttempts' = [connAttempts EXCEPT ![r] = @ + 1]
  /\ IF RetryConnect(r)
       THEN /\ pc' = [pc EXCEPT ![r] = "sleep"]
            /\ UNCHANGED result
       ELSE ConnectionNone(r)
  /\ UNCHANGED <<envVars, fnVars, genVars, credentials, conn_retries, conn_attempt, delays, slept,
                 connection, executed, answer, exec_error, response>>

\* The sleep is followed by the same attempt again.
Sleep_SameAttempt(r) ==
  /\ pc[r] = "sleep"
  /\ delays' = [delays EXCEPT ![r] = @ + 1]
  /\ slept' = [slept EXCEPT ![r] = @ + retry_delay]
  /\ pc' = [pc EXCEPT ![r] = "connect"]
  /\ UNCHANGED <<envVars, fnVars, genVars, credentials, conn_retries, conn_attempt,
                 connAttempts, connection, executed, answer, exec_error,
                 result, response>>

\* time.sleep(retry_delay), then the next attempt.
Sleep(r) ==
  /\ pc[r] = "sleep"
  /\ delays' = [delays EXCEPT ![r] = @ + 1]
  /\ slept' = [slept EXCEPT ![r] = @ + retry_delay]
  /\ conn_attempt' = [conn_attempt EXCEPT ![r] = @ + 1]
  /\ pc' = [pc EXCEPT ![r] = "connect"]
  /\ UNCHANGED <<envVars, fnVars, genVars, credentials, conn_retries, connAttempts, connection, executed,
                 answer, exec_error, result, response>>

(***************************************************************************)
(* execute_sql_query                                                       *)
(***************************************************************************)

\* What the except clause of execute_sql_query does to the connection: it
\* logs and returns, and the connection stays as it is.
AfterExecutionError(conn) == conn

\* except Exception: log, return None
ExecutionError(r) ==
  /\ \E e \in BackendErrors : exec_error' = [exec_error EXCEPT ![r] = e]
  /\ connection' = [connection EXCEPT ![r] = AfterExecutionError(@)]
  /\ result' = [result EXCEPT ![r] = NoResult]
  /\ pc' = [pc EXCEPT ![r] = "executed"]

\* cursor = connection.cursor(); cursor.execute(sql_query) succeeds.
ExecuteOk(r) ==
  /\ pc[r] = "execute"
  /\ executed' = [executed EXCEPT ![r] = Append(@, StatementToExecute(r))]
  /\ pc' = [pc EXCEPT ![r] = "fetch"]
  /\ UNCHANGED <<envVars, fnVars, genVars, credentials, conn_retries, conn_attempt, connAttempts, delays,
                 slept, connection, answer, exec_error, result, response>>

\* cursor.execute(sql_query) raises: the backend rejects the statement.
ExecuteFail(r) ==
  /\ pc[r] = "execute"
  /\ executed' = [executed EXCEPT ![r] = Append(@, StatementToExecute(r))]
  /\ ExecutionError(r)
  /\ UNCHANGED <<envVars, fnVars, genVars, credentials, conn_retries, conn_attempt, connAttempts, delays,
                 slept, answer, response>>

\* columns = [column[0] for column in cursor.description]
\* rows = cursor.fetchall()
FetchOk(r) ==
  /\ pc[r] = "fetch"
  /\ \E a \in DbAnswers : answer' = [answer EXCEPT ![r] = a]
  /\ pc' = [pc EXCEPT ![r] = "close"]
  /\ UNCHANGED <<envVars, fnVars, genVars, credentials, conn_retries, conn_attempt, connAttempts, delays,
                 slept, connection, executed, exec_error, result, response>>

\* Reading the description or the rows raises.
FetchFail(r) ==
  /\ pc[r] = "fetch"
  /\ ExecutionError(r)
  /\ UNCHANGED <<envVars, fnVars, genVars, credentials, conn_retries, conn_attempt, connAttempts, delays,
                 slept, executed, answer, response>>

\* connection.close(); return {"columns": columns, "rows": rows}
Close(r) ==
  /\ pc[r] = "close"
  /\ connection' = [connection EXCEPT ![r] = "closed"]
  /\ result' = [result EXCEPT ![r] =
       ResultOf(answer[r].columns, answer[r].rows)]
  /\ pc' = [pc EXCEPT ![r] = "executed"]
  /\ UNCHANGED <<envVars, fnVars, genVars, credentials, conn_retries, conn_attempt, connAttempts, delays,
                 slept, executed, answer, exec_error, response>>

(***************************************************************************)
(* run_query, after execute_sql_query                                      *)
(***************************************************************************)

\* A result without rows taken for no result.
ResultMissing_OrEmpty(res) == res.none \/ Len(res.rows) = 0

\* The test left out: every result is formatted and returned.
ResultMissing_Never(res) == FALSE

\* if not result or "rows" not in result or "columns" not in result: a dict
\* with the two keys is true whatever its rows.
ResultMissing(res) == res.none

\* Steps 2 and 3 of run_query: 500 without a result, else the formatted rows.
Respond(r) ==
  /\ pc[r] = "executed"
  /\ response' = [response EXCEPT ![r] =
       IF ResultMissing(result[r])
         THEN HTTPException(500,
                "Failed to execute SQL or no results returned.")
         ELSE QueryResponse(generated[r].val,
                FormatResults(result[r].columns, result[r].rows))]
  /\ pc' = [pc EXCEPT ![r] = "done"]
  /\ UNCHANGED <<envVars, fnVars, genVars, dbVars>>

(***************************************************************************)
(* Specification                                                           *)
(***************************************************************************)

Next ==
  \E r \in Requests :
    \/ CallGenerate(r)
    \/ LoadSchema(r)
    \/ ModelResponse(r)
    \/ ModelFault(r)
    \/ Sanitize(r)
    \/ Rewrite(r)
    \/ Validate(r)
    \/ Exhausted(r)
    \/ CheckGenerated(r)
    \/ ReadCredentials(r)
    \/ ConnectOk(r)
    \/ ConnectFail(r)
    \/ Sleep(r)
    \/ ExecuteOk(r)
    \/ ExecuteFail(r)
    \/ FetchOk(r)
    \/ FetchFail(r)
    \/ Close(r)
    \/ Respond(r)

Spec == Init /\ [][Next]_vars

(***************************************************************************)
(* The text functions applied on their own                                 *)
(***************************************************************************)

\* str.upper() on one character.
UpperChar(c) ==
  IF \E i \in 1..Len(LowerChars) : LowerChars[i] = c
    THEN UpperChars[CHOOSE i \in 1..Len(LowerChars) : LowerChars[i] = c]
    ELSE c

\* Every way of writing the lower-case word w in upper and lower case.
RECURSIVE Casings(_)
Casings(w) ==
  IF Len(w) = 0 THEN {<<>>}
  ELSE { <<c>> \o rest : c \in {w[1], UpperChar(w[1])},
                         rest \in Casings(Tail(w)) }

\* The texts a keyword is put into: before and after it.
KeywordContexts ==
  {
    <<<<>>,
      <<>>>>,
    <<<<"S", "E", "L", "E", "C", "T", " ", "x", " ", "F", "R", "O", "M", " ", "t", ";", " ">>,
      <<" ", "F", "R", "O", "M", " ", "t">>>>,
    <<<<"S", "E", "L", "E", "C", "T", " ", "x">>,
      <<"_", "a", "t", " ", "F", "R", "O", "M", " ", "t">>>>,
    <<<<"\n">>,
      <<"\t", "T", "A", "B", "L", "E", " ", "t">>>> }

\* Every forbidden word in every casing in every context.
KeywordTexts ==
  { ctx[1] \o word \o ctx[2] :
      ctx \in KeywordContexts,
      word \in UNION { Casings(w) : w \in forbidden } }

\* The validator's and the rewriter's examples.
StatementExamples ==
  { <<"S", "E", "L", "E", "C", "T", " ", "1">>,
    <<"S", "E", "L", "E", "C", "T", " ", "1", " ", "F", "R", "O", "M",
      " ", "t">>,
    <<"D", "R", "O", "P", " ", "T", "A", "B", "L", "E", " ", "t">>,
    <<"S", "E", "L", "E", "C", "T", " ", "n", "a", "m", "e", " ", "F",
      "R", "O", "M", " ", "p", "a", "t", "i", "e", "n", "t", "s">>,
    <<"S", "E", "L", "E", "C", "T", " ", "F", "R", "O", "M", " ", "t">>,
    <<"S", "E", "L", "E", "C", "T", " ", "x", " ", "F", "R", "O", "M",
      "(", "t", ")">>,
    <<"s", "e", "l", "e", "c", "t", " ", "x", "\n", "f", "r", "o", "m",
      "\n", "t">> }

\* Model texts with fences, language tags and prefixes.
ModelTextExamples ==
  { <<Backquote, Backquote, Backquote, "s", "q", "l", "\n", "S", "E", "L",
      "E", "C", "T", " ", "1", "\n", Backquote, Backquote, Backquote>>,
    <<Backquote, Backquote, Backquote, "s", "q", "l", "i", "t", "e", "\n",
      "S", "E", "L", "E", "C", "T", " ", "1", "\n", Backquote, Backquote,
      Backquote>>,
    <<Backquote, Backquote, Backquote, "S", "Q", "L", "i", "t", "e", "\n",
      "s", "e", "l", "e", "c", "t", " ", "x", " ", "f", "r", "o", "m",
      " ", "t", ";", "\n", Backquote, Backquote, Backquote>>,
    <<"Q", "u", "e", "r", "y", " ", "w", "i", "t", "h", " ", "c", "a",
      "p", ":", "\n", Backquote, Backquote, Backquote, "s", "q", "l",
      "\n", "S", "E", "L", "E", "C", "T", " ", "x", " ", "F", "R", "O",
      "M", " ", "t", "\n", Backquote, Backquote, Backquote>>,
    <<"Q", "u", "e", "r", "y", " ", "w", "i", "t", "h", " ", "c", "a",
      "p", ":", "\n", Backquote, Backquote, Backquote, "s", "q", "l", "i",
      "t", "e", "\n", "S", "E", "L", "E", "C", "T", " ", "x", " ", "F",
      "R", "O", "M", " ", "t", "\n", Backquote, Backquote, Backquote>>,
    <<"S", "Q", "L", " ", "Q", "u", "e", "r", "y", ":", " ", "S", "E",
      "L", "E", "C", "T", " ", "x", " ", "F", "R", "O", "M", " ", "t", ";">>,
    <<"G", "e", "n", "e", "r", "a", "t", "e", "d", " ", "S", "Q", "L",
      ":", "\n", "S", "E", "L", "E", "C", "T", " ", "x", " ", "F", "R",
      "O", "M", " ", "t">>,
    <<"s", "q", "l", "i", "t", "e", "\n", "S", "E", "L", "E", "C", "T",
      "*", "F", "R", "O", "M", " ", "t">> }
\* The texts the functions are applied to.
FnInputs ==
  Responses \cup KeywordTexts \cup StatementExamples \cup ModelTextExamples

\* The longest row of a result the formatting is applied to.
MaxRowLen == 3

\* The results the formatting of run_query is applied to: one or two column
\* names and up to MaxRows rows of 0..MaxRowLen values each, so that a row may
\* be shorter or longer than the list of columns.
FormatInputs ==
  { ResultOf(columns,
             [i \in DOMAIN lens |-> [j \in 1..lens[i] |-> 10 * i + j]]) :
      columns \in {<<"region">>, <<"region", "count">>},
      lens \in UNION { [1..n -> 0..MaxRowLen] : n \in 0..MaxRows } }

\* One function argument: a text, None, or a result to format.
InitFn ==
  /\ InitWith({})
  /\ model_texts = "any"
  /\ retry_args = AnyRetries
  /\ \/ fn_arg \in FnInputs /\ fn_arg_type = "str" /\ fn_result = NoResult
     \/ fn_arg = <<>> /\ fn_arg_type = "NoneType" /\ fn_result = NoResult
     \/ fn_arg = <<>> /\ fn_arg_type = "dict" /\ fn_result \in FormatInputs
  /\ fn_cleaned = None
  /\ fn_rewritten = None
  /\ fn_rewritten2 = None
  /\ fn_valid = "unknown"
  /\ fn_raised = {}
  /\ fn_formatted = None

pipelineVars == <<pc, genVars, dbVars, response, envVars>>

\* clean_sql_output(fn_arg): `if not raw_text` is true of "" and of None.
ApplySanitize ==
  /\ fn_arg_type \in {"str", "NoneType"}
  /\ fn_cleaned.none
  /\ fn_cleaned' = Some(clean_sql_output(fn_arg))
  /\ UNCHANGED <<pipelineVars, fn_arg, fn_arg_type, fn_rewritten,
                 fn_rewritten2, fn_valid, fn_raised, fn_result, fn_formatted>>

\* optimize_sql_query(fn_arg): it has no try, so sql_query.strip() on None
\* ends the call with an AttributeError.
ApplyRewrite ==
  /\ fn_arg_type \in {"str", "NoneType"}
  /\ fn_rewritten.none
  /\ "optimize_sql_query" \notin fn_raised
  /\ IF fn_arg_type = "str"
       THEN /\ fn_rewritten' = Some(optimize_sql_query(fn_arg))
            /\ UNCHANGED fn_raised
       ELSE /\ fn_raised' = fn_raised \cup {"optimize_sql_query"}
            /\ UNCHANGED fn_rewritten
  /\ UNCHANGED <<pipelineVars, fn_arg, fn_arg_type, fn_cleaned, fn_rewritten2,
                 fn_valid, fn_result, fn_formatted>>

\* optimize_sql_query applied to what optimize_sql_query returned.
ApplyRewriteAgain ==
  /\ ~fn_rewritten.none
  /\ fn_rewritten2.none
  /\ fn_rewritten2' = Some(optimize_sql_query(fn_rewritten.val))
  /\ UNCHANGED <<pipelineVars, fn_arg, fn_arg_type, fn_cleaned, fn_rewritten,
                 fn_valid, fn_raised, fn_result, fn_formatted>>

\* The body of validate_sql_query's try: True, False, or an exception when
\* sql_query.strip() is applied to a value that is no text.
ValidateBody(type, arg) ==
  IF type # "str" THEN "raise"
  ELSE IF validate_sql_query(arg) THEN "true" ELSE "false"

\* An except clause that lets the exception through.
ValidateExcept_Reraise(outcome) == outcome

\* except Exception as e: log, return False
ValidateExcept(outcome) == IF outcome = "raise" THEN "false" ELSE outcome

\* validate_sql_query(fn_arg)
ApplyValidate ==
  /\ fn_arg_type \in {"str", "NoneType"}
  /\ fn_valid = "unknown"
  /\ "validate_sql_query" \notin fn_raised
  /\ LET outcome == ValidateExcept(ValidateBody(fn_arg_type, fn_arg))
     IN  IF outcome = "raise"
           THEN /\ fn_raised' = fn_raised \cup {"validate_sql_query"}
                /\ UNCHANGED fn_valid
           ELSE /\ fn_valid' = outcome
                /\ UNCHANGED fn_raised
  /\ UNCHANGED <<pipelineVars, fn_arg, fn_arg_type, fn_cleaned, fn_rewritten,
                 fn_rewritten2, fn_result, fn_formatted>>

\* Step 3 of run_query applied to fn_result.
ApplyFormat ==
  /\ fn_arg_type = "dict"
  /\ fn_formatted.none
  /\ fn_formatted' = Some(FormatResults(fn_result.columns, fn_result.rows))
  /\ UNCHANGED <<pipelineVars, fn_arg, fn_arg_type, fn_cleaned, fn_rewritten,
                 fn_rewritten2, fn_valid, fn_raised, fn_result>>

NextFn ==
  \/ ApplySanitize
  \/ ApplyRewrite
  \/ ApplyRewriteAgain
  \/ ApplyValidate
  \/ ApplyFormat

SpecFn == InitFn /\ [][NextFn]_vars

(***************************************************************************)
(* The pipeline when every step that is begun ends                         *)
(***************************************************************************)

\* The state in which the requests of `active` have arrived and the model
\* answers with the short texts.
InitShort(active, retries) ==
  /\ InitWith(active)
  /\ model_texts = "short"
  /\ retry_args = retries
  /\ fn_arg = <<>>
  /\ fn_arg_type = "str"
  /\ fn_cleaned = None
  /\ fn_rewritten = None
  /\ fn_rewritten2 = None
  /\ fn_valid = "unknown"
  /\ fn_raised = {}
  /\ fn_result = NoResult
  /\ fn_formatted = None

\* One request arrives.
InitLive == InitShort({"a"}, AnyRetries)

\* The steps of request r other than the call of clean_sql_output.
RunsOn(r) ==
  \/ CallGenerate(r)
  \/ LoadSchema(r)
  \/ ModelResponse(r)
  \/ ModelFault(r)
  \/ Rewrite(r)
  \/ Validate(r)
  \/ Exhausted(r)
  \/ CheckGenerated(r)
  \/ ReadCredentials(r)
  \/ ConnectOk(r)
  \/ ConnectFail(r)
  \/ Sleep(r)
  \/ ExecuteOk(r)
  \/ ExecuteFail(r)
  \/ FetchOk(r)
  \/ FetchFail(r)
  \/ Close(r)
  \/ Respond(r)

\* ENABLED <<Sanitize(r)>>_vars: clean_sql_output returns for every text,
\* and the step adds "sanitize" to stages.
SanitizeEnabled(r) == pc[r] = "sanitize"

\* Each request is a call of run_query on a thread of its own: once called
\* it runs on, and the schema read, the model call, pyodbc.connect,
\* time.sleep and the cursor calls are taken to return or raise.  The last
\* line is WF_vars(Sanitize(r)) with its ENABLED written out.
Fairness ==
  \A r \in Requests :
    /\ WF_vars(RunsOn(r))
    /\ []<>(~SanitizeEnabled(r)) \/ []<><<Sanitize(r)>>_vars

SpecLive == InitLive /\ [][Next]_vars /\ Fairness

(***************************************************************************)
(* Two requests at once                                                    *)
(***************************************************************************)

\* max_retries as run_query has them bound: it calls generate_sql_query
\* and execute_sql_query calls get_azure_connection without the argument,
\* so each is the default, the largest value here.
DefaultRetries ==
  [generate |-> {MaxGenRetries}, connect |-> {MaxConnRetries}]

\* Two requests have arrived, each a call of run_query on a thread of the
\* server's pool.
InitConc == InitShort(Requests, DefaultRetries)

\* Any interleaving of the steps of the two.
SpecConc == InitConc /\ [][Next]_vars

(***************************************************************************)
(* Properties                                                              *)
(***************************************************************************)

\* The states of a request once generate_sql_query has returned to run_query.
AfterGenerate ==
  {"generated", "get_connection", "connect", "sleep", "execute", "fetch",
   "close", "executed", "done"}

\* generate_sql_query entered its loop and returned no statement.
GenerationExhausted(r) ==
  /\ pc[r] \in AfterGenerate
  /\ attempt[r] >= 1
  /\ generated[r].none

\* The answer of run_query when no statement was generated.
GenerationFailed == HTTPException(400, "Failed to generate SQL query.")

\* The four stages of one attempt, in the order of the code.
AllStages == <<"model", "sanitize", "rewrite", "validate">>

\* The text starts with SELECT or WITH, in any casing.
StartsReadOnly(s) == OccursAtNoCase(s, 1, kwSelect) \/ OccursAtNoCase(s, 1, kwWith)

\* Some forbidden word occurs in the text, in any casing.
MentionsKeyword(s) ==
  \E word \in forbidden : \E i \in 1..Len(s) : OccursAtNoCase(s, i, word)

\* The text holds a cap token: TOP, whitespace, a number.
HasRowCap(s) == \E i \in 1..Len(s) : TopAt(s, i)

\* C1: when every one of the max_retries attempts ended without a statement,
\* the model was called exactly max_retries times, nothing is returned, no
\* connection was attempted or opened, no statement was executed, and the
\* request ends with the generation failure.
C1_ExhaustionReportsFailure ==
  \A r \in Requests :
    GenerationExhausted(r) =>
      /\ modelCalls[r] = max_retries[r]
      /\ failures[r] = max_retries[r]
      /\ pc[r] \in {"generated", "done"}
      /\ connAttempts[r] = 0
      /\ connection[r] = "none"
      /\ executed[r] = <<>>
      /\ pc[r] = "done" => response[r] = GenerationFailed

\* C1 witness: three attempts were all refused, the last one by the rewriter
\* (as for "DROP TABLE patients"), and the request has ended.
C1_Witness ==
  \E r \in Requests :
    /\ pc[r] = "done"
    /\ GenerationExhausted(r)
    /\ max_retries[r] = 3
    /\ stages[r] = <<"model", "sanitize", "rewrite">>

\* C2: a statement generate_sql_query returns starts with SELECT or WITH and
\* holds no forbidden word, whatever the casing.
C2_AcceptedIsReadOnly ==
  \A r \in Requests :
    ~generated[r].none =>
      /\ StartsReadOnly(generated[r].val)
      /\ ~MentionsKeyword(generated[r].val)

\* C2 witness: a statement was returned after an earlier attempt had failed.
C2_Witness ==
  \E r \in Requests :
    /\ pc[r] = "generated"
    /\ ~generated[r].none
    /\ failures[r] >= 1

\* C3: a request gives the database at most one statement, and only the text
\* generate_sql_query returned, unchanged, from an attempt that went through
\* all four stages.
C3_OnlyAcceptedExecuted ==
  \A r \in Requests :
    /\ Len(executed[r]) <= 1
    /\ \A i \in 1..Len(executed[r]) :
         /\ ~generated[r].none
         /\ executed[r][i] = generated[r].val
         /\ executed[r][i] = sql_query[r]
         /\ stages[r] = AllStages

\* C3 witness: a request that executed a statement has ended.
C3_Witness ==
  \E r \in Requests : pc[r] = "done" /\ Len(executed[r]) = 1

\* C4: a text that holds a forbidden word in any casing is refused by
\* optimize_sql_query (it returns "") and by validate_sql_query (False).
C4_KeywordRejected ==
  MentionsKeyword(fn_arg) =>
    /\ ~fn_rewritten.none => fn_rewritten.val = <<>>
    /\ fn_valid # "true"

\* C4 witness: both functions were applied to a text that starts like a
\* query and holds a forbidden word.
C4_Witness ==
  /\ MentionsKeyword(fn_arg)
  /\ StartsReadOnly(fn_arg)
  /\ ~fn_rewritten.none
  /\ fn_valid = "false"

\* C5: when execute_sql_query has returned, its connection is not open.
C5_ConnectionReleased ==
  \A r \in Requests : pc[r] \in {"executed", "done"} => connection[r] # "open"

\* get_azure_connection entered its loop and returned no connection.
ConnectionExhausted(r) ==
  /\ pc[r] \in {"executed", "done"}
  /\ conn_attempt[r] >= 1
  /\ connection[r] = "none"

\* C6: when every connection attempt failed, exactly max_retries attempts
\* were made, no statement was executed, execute_sql_query returned nothing,
\* and the answer is a failure other than the generation failure.
C6_ConnectionUnavailable ==
  \A r \in Requests :
    ConnectionExhausted(r) =>
      /\ connAttempts[r] = conn_retries[r]
      /\ executed[r] = <<>>
      /\ result[r].none
      /\ pc[r] = "done" =>
           /\ response[r].status = 500
           /\ response[r] # GenerationFailed

\* C6 witness: three connection attempts failed and the request has ended.
C6_Witness ==
  \E r \in Requests :
    /\ pc[r] = "done"
    /\ ConnectionExhausted(r)
    /\ conn_retries[r] = 3

\* C7: a sleep happens only after a failed attempt that another attempt
\* follows; a connection obtained after k failures took k + 1 attempts and k
\* sleeps of retry_delay each; and what execute_sql_query returns is what the
\* database answered, however many attempts it took.
C7_ConnectRetry ==
  \A r \in Requests :
    /\ pc[r] = "sleep" =>
         /\ conn_attempt[r] < conn_retries[r]
         /\ delays[r] = connAttempts[r] - 1
    /\ pc[r] = "connect" =>
         /\ conn_attempt[r] <= conn_retries[r]
         /\ delays[r] = connAttempts[r]
    /\ connection[r] # "none" =>
         /\ connAttempts[r] = delays[r] + 1
         /\ connAttempts[r] <= conn_retries[r]
    /\ slept[r] = retry_delay * delays[r]
    /\ connection[r] = "closed" =>
         result[r] = ResultOf(answer[r].columns, answer[r].rows)

\* C7 witness: the connection failed twice and was made at the third
\* attempt, and the request ended with the rows.
C7_Witness ==
  \E r \in Requests :
    /\ pc[r] = "done"
    /\ connAttempts[r] = 3
    /\ delays[r] = 2
    /\ response[r].status = 200
    /\ Len(response[r].results) > 0

\* C8: every failed attempt, whatever failed in it, uses up one attempt; the
\* model is called at most max_retries times; and without a statement the
\* loop ends only when the attempts are used up, with the generation failure
\* as the answer.
C8_FailuresConsumeOneAttempt ==
  \A r \in Requests :
    attempt[r] >= 1 =>
      /\ failures[r] = attempt[r] - 1
      /\ modelCalls[r] <= max_retries[r]
      /\ modelCalls[r] \in {failures[r], failures[r] + 1}
      /\ GenerationExhausted(r) => failures[r] = max_retries[r]
      /\ (pc[r] = "done" /\ generated[r].none) => response[r] = GenerationFailed

\* C8 witness: a fault of the model, then two more failed attempts of which
\* the last one failed validation, and the request has ended.
C8_Witness ==
  \E r \in Requests :
    /\ pc[r] = "done"
    /\ GenerationExhausted(r)
    /\ failures[r] = 3
    /\ stages[r] = AllStages

\* C9: the statement returned is the one of the first attempt that passed
\* validation (every attempt before it failed), and once a statement is
\* returned the model is not called again and the statement does not change.
C9_FirstAcceptedWins ==
  /\ [](\A r \in Requests :
          ~generated[r].none =>
            /\ modelCalls[r] = failures[r] + 1
            /\ attempt[r] = modelCalls[r]
            /\ generated[r].val = sql_query[r]
            /\ stages[r] = AllStages
            /\ pc[r] = "generated" => validate_sql_query(generated[r].val))
  /\ [][\A r \in Requests :
          ~generated[r].none =>
            /\ modelCalls'[r] = modelCalls[r]
            /\ generated'[r] = generated[r]]_vars

\* C9 witness: the second of three attempts was accepted and the request
\* ended with one attempt unused.
C9_Witness ==
  \E r \in Requests :
    /\ pc[r] = "done"
    /\ ~generated[r].none
    /\ modelCalls[r] = 2
    /\ max_retries[r] = 3

\* C10: a statement generate_sql_query returns holds a cap token TOP <n>.
C10_AcceptedIsCapped ==
  \A r \in Requests : ~generated[r].none => HasRowCap(generated[r].val)

\* The text starts with the keyword SELECT: the word in any casing, and
\* whitespace after it.
StartsWithSelect(s) == OccursAtNoCase(s, 1, kwSelect) /\ WsRun(s, 7) >= 1

\* The statement declares a row cap after SELECT: TOP <n> is what follows the
\* whitespace after SELECT, however much whitespace that is.
DeclaresCap(s) == StartsWithSelect(s) /\ TopAt(s, 7 + WsRun(s, 7))

\* The number of cap tokens TOP <n> in the text.
CapCount(s) == Cardinality({i \in 1..Len(s) : TopAt(s, i)})

\* C11: optimize_sql_query, given a statement that starts with SELECT and
\* holds no forbidden word, returns it with exactly the cap tokens it had when
\* it declares a row cap after SELECT, and with SELECT TOP 10 in front and one
\* cap token more when it declares none.
C11_RewriteCapsOnce ==
  LET stmt == Strip(fn_arg)
  IN  (/\ fn_arg_type = "str"
       /\ ~fn_rewritten.none
       /\ StartsWithSelect(stmt)
       /\ ~MentionsKeyword(stmt)) =>
        IF DeclaresCap(stmt)
          THEN CapCount(fn_rewritten.val) = CapCount(stmt)
          ELSE /\ OccursAt(fn_rewritten.val, 1, SelectTop10)
               /\ CapCount(fn_rewritten.val) = CapCount(stmt) + 1

\* C12: for a text that carries a cap token, optimize_sql_query applied to
\* its own result, whatever that result is, returns that result again.
C12_RewriteIdempotent ==
  (/\ fn_arg_type = "str"
   /\ HasRowCap(fn_arg)
   /\ ~fn_rewritten2.none) =>
    fn_rewritten2.val = fn_rewritten.val

\* Every character of the text is whitespace.
AllWhitespace(s) == \A i \in 1..Len(s) : s[i] \in Whitespace

\* The text is a leading SELECT or WITH, whitespace, a select list,
\* whitespace, the word FROM, whitespace and a source, the words in any
\* casing: the lengths w1, w2, w3 of the whitespace are 1, since the list and
\* the source may begin and end with more of it.
HasFromClause(s) ==
  \E kw \in {kwSelect, kwWith} :
    \E list \in 1..Len(s) :
      LET from == Len(kw) + 1 + list + 1
      IN  /\ from + 5 <= Len(s)
          /\ Lower(SubSeq(s, 1, Len(kw))) = kw
          /\ AllWhitespace(SubSeq(s, Len(kw) + 1, Len(kw) + 1))
          /\ AllWhitespace(SubSeq(s, from, from))
          /\ Lower(SubSeq(s, from + 1, from + 4)) = kwFrom
          /\ AllWhitespace(SubSeq(s, from + 5, from + 5))
          /\ from + 6 <= Len(s)

\* The three texts of the validator's boundary cases.
Select1 == <<"S", "E", "L", "E", "C", "T", " ", "1">>
Select1FromT ==
  <<"S", "E", "L", "E", "C", "T", " ", "1", " ", "F", "R", "O", "M", " ", "t">>
DropTableT == <<"D", "R", "O", "P", " ", "T", "A", "B", "L", "E", " ", "t">>

\* C13: validate_sql_query never ends with an exception, returns False for
\* an argument its checks cannot be applied to, and returns True for a text
\* exactly when the text (leading and trailing whitespace aside) starts with
\* SELECT or WITH, has a FROM clause after it and holds no forbidden word;
\* it returns False for "SELECT 1" and "DROP TABLE t" and True for
\* "SELECT 1 FROM t".
C13_ValidateExactly ==
  /\ "validate_sql_query" \notin fn_raised
  /\ fn_valid # "unknown" =>
       /\ fn_valid = "true" <=>
            /\ fn_arg_type = "str"
            /\ HasFromClause(Strip(fn_arg))
            /\ ~MentionsKeyword(fn_arg)
       /\ fn_arg = Select1 => fn_valid = "false"
       /\ fn_arg = Select1FromT => fn_valid = "true"
       /\ fn_arg = DropTableT => fn_valid = "false"

\* C13 witness: "SELECT 1 FROM t" was validated and found valid.
C13_Witness == fn_arg = Select1FromT /\ fn_valid = "true"

\* The text holds the keyword SELECT or WITH: the word in any casing, and
\* whitespace after it.
HasStmtKeyword(s) == \E i \in 1..Len(s) : StmtStartAt(s, i)

\* Where the first such keyword is.
FirstStmtKeyword(s) ==
  CHOOSE i \in 1..Len(s) :
    StmtStartAt(s, i) /\ \A j \in 1..(i - 1) : ~StmtStartAt(s, j)

\* The text without its code fences and without the language tag sqlite or
\* sql, in any casing, that follows a fence.
RECURSIVE WithoutFencesAndTags(_)
WithoutFencesAndTags(s) ==
  IF Len(s) = 0 THEN s
  ELSE IF OccursAt(s, 1, Fence)
    THEN IF OccursAtNoCase(s, 4, kwSqlite) THEN WithoutFencesAndTags(From(s, 10))
         ELSE IF OccursAtNoCase(s, 4, kwSql) THEN WithoutFencesAndTags(From(s, 7))
         ELSE WithoutFencesAndTags(From(s, 4))
  ELSE <<s[1]>> \o WithoutFencesAndTags(From(s, 2))

\* The fenced example "```sql\nSELECT 1\n```".
FencedSelect1 ==
  <<Backquote, Backquote, Backquote, "s", "q", "l", "\n", "S", "E", "L", "E",
    "C", "T", " ", "1", "\n", Backquote, Backquote, Backquote>>

\* C14: clean_sql_output, given a text that holds the keyword SELECT or WITH,
\* returns the text from the first such keyword on, without fences and
\* language tags and without the whitespace and the terminators at its end;
\* it returns "SELECT 1" for the fenced example and "" for "".
C14_SanitizeExtracts ==
  (fn_arg_type = "str" /\ ~fn_cleaned.none) =>
    LET text == Strip(fn_arg)
    IN  /\ HasStmtKeyword(text) =>
             fn_cleaned.val =
               RStripSet(WithoutFencesAndTags(From(text, FirstStmtKeyword(text))),
                         Whitespace \cup {";"})
        /\ fn_arg = FencedSelect1 => fn_cleaned.val = Select1
        /\ fn_arg = <<>> => fn_cleaned.val = <<>>

\* Every row of the result has one value per column.
ShapeOk(res) == \A i \in 1..Len(res.rows) : Len(res.rows[i]) = Len(res.columns)

ConnectionUnavailable ==
  HTTPException(500, "Failed to execute SQL or no results returned.")

\* C16: when a connection was made and the database then failed the
\* statement, the answer carries the error the database reported and is not
\* the answer given when no connection could be made.
C16_ExecutionErrorReported ==
  \A r \in Requests :
    (pc[r] = "done" /\ connection[r] # "none" /\ exec_error[r] # NoError) =>
      /\ response[r].detail = exec_error[r]
      /\ response[r] # ConnectionUnavailable

\* C17: when load_schema found the schema file missing or unreadable, the
\* request has ended with a failure that names the schema fault, and in it
\* the model was never called, no connection was attempted or made and no
\* statement was executed.
C17_SchemaUnavailable ==
  \A r \in Requests :
    schema_file[r] \in {"missing", "unparsable"} =>
      /\ pc[r] = "done"
      /\ modelCalls[r] = 0
      /\ connAttempts[r] = 0
      /\ connection[r] = "none"
      /\ executed[r] = <<>>
      /\ response[r] = HTTPException(500, SchemaFault(schema_file[r]))
      /\ response[r] \notin {GenerationFailed, ConnectionUnavailable}

\* C17 witness: a request ended on a schema file json.load could not read.
C17_Witness ==
  \E r \in Requests : pc[r] = "done" /\ schema_file[r] = "unparsable"

\* C18: a request is answered only when it ends.  An answer that holds SQL
\* text is the 200 answer, given only when a statement was returned by
\* generate_sql_query, a connection was made, the statement was executed and
\* its rows were read, and it holds that statement and the records of those
\* rows.  When no statement was generated, no connection was made, the
\* execution failed or the schema could not be read, the answer is a failure
\* with no SQL text and no records.
C18_AllOrNothing ==
  \A r \in Requests :
    /\ pc[r] # "done" => response[r] = NoResponse
    /\ pc[r] = "done" =>
         /\ response[r].status \in {200, 400, 500}
         /\ response[r].status = 200 <=> ~response[r].sql_query.none
         /\ ~response[r].sql_query.none =>
              /\ ~generated[r].none
              /\ executed[r] = <<generated[r].val>>
              /\ connection[r] = "closed"
              /\ exec_error[r] = NoError
              /\ ~result[r].none
              /\ result[r] = ResultOf(answer[r].columns, answer[r].rows)
              /\ response[r].sql_query = generated[r]
              /\ response[r].results =
                   FormatResults(answer[r].columns, answer[r].rows)
              /\ Len(response[r].results) = Len(answer[r].rows)
         /\ (\/ generated[r].none
             \/ connection[r] = "none"
             \/ exec_error[r] # NoError
             \/ schema_file[r] # "ok") =>
              /\ response[r].status \in {400, 500}
              /\ response[r].sql_query.none
              /\ response[r].results = <<>>

\* C18 witness: a request ended with a statement and the records of two rows
\* after an attempt that failed.
C18_Witness ==
  \E r \in Requests :
    /\ pc[r] = "done"
    /\ failures[r] >= 1
    /\ ~response[r].sql_query.none
    /\ Len(response[r].results) = 2

\* The word at the start of the text is written in both cases.
MixedCase(s, n) ==
  /\ \E i \in 1..n : s[i] # LowerChar(s[i])
  /\ \E i \in 1..n : s[i] # UpperChar(s[i])

\* A markdown-fenced statement: an opening fence with the tag sql and a
\* newline, SELECT in mixed case, a select list and a FROM clause, a closing
\* fence; no cap token and no forbidden word.
FencedMixedCaseSelect(text) ==
  LET inner == SubSeq(text, 8, Len(text) - 3)
  IN  /\ Len(text) > 10
      /\ OccursAt(text, 1, Fence \o <<"s", "q", "l", "\n">>)
      /\ OccursAt(text, Len(text) - 2, Fence)
      /\ StartsWithSelect(inner)
      /\ MixedCase(inner, 6)
      /\ HasFromClause(inner)
      /\ ~HasRowCap(text)
      /\ ~MentionsKeyword(text)

\* The first answer of the model is such a statement, and its attempt is
\* under way.
FirstIsFenced(r) ==
  /\ modelCalls[r] = 1
  /\ pc[r] \in {"sanitize", "rewrite", "validate"}
  /\ FencedMixedCaseSelect(raw_sql[r])

\* C19: when the first answer of the model is a fenced SELECT ... FROM
\* statement with SELECT in mixed case, no cap and no forbidden word, the
\* first attempt passes every stage: the cleaned text starts with SELECT and
\* has no fence, the rewritten text starts with SELECT TOP 10, holds no
\* forbidden word and is valid, and generate_sql_query returns it.  A
\* statement returned by the first attempt is the only one executed, and
\* when the database answers it with the columns region and count and N rows,
\* the caller receives N records, each with exactly the keys region and
\* count.
C19_EndToEnd ==
  /\ [](\A r \in Requests :
          FirstIsFenced(r) =>
            /\ attempt[r] = 1
            /\ failures[r] = 0
            /\ pc[r] = "rewrite" =>
                 /\ StartsWithSelect(sql_query[r])
                 /\ ~Contains(sql_query[r], Fence)
            /\ pc[r] = "validate" =>
                 /\ OccursAt(sql_query[r], 1, SelectTop10)
                 /\ CapCount(sql_query[r]) = 1
                 /\ ~MentionsKeyword(sql_query[r])
                 /\ validate_sql_query(sql_query[r]))
  /\ [][\A r \in Requests :
          (FirstIsFenced(r) /\ pc'[r] # pc[r]) =>
            /\ pc[r] = "sanitize" => pc'[r] = "rewrite"
            /\ pc[r] = "rewrite" => pc'[r] = "validate"
            /\ pc[r] = "validate" =>
                 /\ pc'[r] = "generated"
                 /\ generated'[r] = Some(sql_query[r])
                 /\ HasRowCap(generated'[r].val)
                 /\ ~MentionsKeyword(generated'[r].val)
            /\ modelCalls'[r] = 1
            /\ failures'[r] = 0]_vars
  /\ [][\A r \in Requests :
          ~generated[r].none => generated'[r] = generated[r]]_vars
  /\ [](\A r \in Requests :
          (~generated[r].none /\ modelCalls[r] = 1) =>
            /\ executed[r] \in {<<>>, <<generated[r].val>>}
            /\ (/\ pc[r] = "done"
                /\ ~result[r].none
                /\ result[r].columns = <<"region", "count">>) =>
                 /\ response[r].status = 200
                 /\ response[r].sql_query = generated[r]
                 /\ Len(response[r].results) = Len(result[r].rows)
                 /\ \A i \in 1..Len(response[r].results) :
                      /\ DOMAIN response[r].results[i] = {"region", "count"}
                      /\ response[r].results[i]["region"] = result[r].rows[i][1]
                      /\ response[r].results[i]["count"] = result[r].rows[i][2])

\* C19 witness: the first answer was such a fenced statement, and its text,
\* cleaned and capped, is about to be validated.
C19_Witness ==
  \E r \in Requests : FirstIsFenced(r) /\ pc[r] = "validate"

\* The first n stages, in the order of the code.
StagesUpTo(n) == SubSeq(AllStages, 1, n)

\* C20: the stages of an attempt run in the order model call, sanitize,
\* rewrite, validate, each on the non-empty result of the one before.  When
\* clean_sql_output returns "" the attempt ends there and the next one
\* begins, the rewriter and the validator not having run; when
\* optimize_sql_query rejects (returns "") the attempt ends there and the
\* next one begins, the validator not having run.  What is returned is not
\* empty, holds no forbidden word and does not change, and nothing else is
\* executed.
C20_StagesShortCircuit ==
  /\ [](\A r \in Requests :
          /\ \E n \in 0..4 : stages[r] = StagesUpTo(n)
          /\ pc[r] = "sanitize" => stages[r] = StagesUpTo(1)
          /\ pc[r] = "rewrite" =>
               stages[r] = StagesUpTo(2) /\ Len(sql_query[r]) > 0
          /\ pc[r] = "validate" =>
               stages[r] = StagesUpTo(3) /\ Len(sql_query[r]) > 0
          /\ ~generated[r].none =>
               /\ stages[r] = AllStages
               /\ Len(generated[r].val) > 0
               /\ pc[r] = "generated" => ~MentionsKeyword(generated[r].val)
          /\ \A i \in 1..Len(executed[r]) :
               /\ ~generated[r].none
               /\ executed[r][i] = generated[r].val)
  /\ [][\A r \in Requests :
          /\ ~generated[r].none => generated'[r] = generated[r]
          /\ (/\ pc[r] = "sanitize"
              /\ pc'[r] # pc[r]
              /\ clean_sql_output(raw_sql[r]) = <<>>) =>
               /\ pc'[r] = "gen_loop"
               /\ attempt'[r] = attempt[r] + 1
               /\ stages'[r] = StagesUpTo(2)
               /\ generated'[r].none
               /\ executed'[r] = executed[r]
          /\ (/\ pc[r] = "rewrite"
              /\ pc'[r] # pc[r]
              /\ optimize_sql_query(sql_query[r]) = <<>>) =>
               /\ pc'[r] = "gen_loop"
               /\ attempt'[r] = attempt[r] + 1
               /\ stages'[r] = StagesUpTo(3)
               /\ generated'[r].none
               /\ executed'[r] = executed[r]]_vars

\* C20 witness: the second attempt is about to begin after an attempt whose
\* statement the rewriter rejected.
C20_Witness ==
  \E r \in Requests :
    /\ pc[r] = "gen_loop"
    /\ attempt[r] = 2
    /\ stages[r] = StagesUpTo(3)

\* The ways a request ends, told apart by what happened in it.
Outcomes(r) ==
  { o \in {"success", "generation failed", "schema unavailable",
           "connection unavailable", "execution error"} :
      \/ /\ o = "success"
         /\ response[r] =
              QueryResponse(generated[r].val,
                FormatResults(answer[r].columns, answer[r].rows))
         /\ ~generated[r].none
         /\ ~result[r].none
      \/ /\ o = "generation failed"
         /\ response[r] = GenerationFailed
         /\ schema_file[r] = "ok"
         /\ generated[r].none
      \/ /\ o = "schema unavailable"
         /\ response[r].status = 500
         /\ schema_file[r] \in {"missing", "unparsable"}
      \/ /\ o = "connection unavailable"
         /\ response[r].status = 500
         /\ ~generated[r].none
         /\ connection[r] = "none"
      \/ /\ o = "execution error"
         /\ response[r].status = 500
         /\ connection[r] # "none"
         /\ exec_error[r] # NoError }

\* C21: when every step that is begun ends, every request that arrived
\* ends; it ends in exactly one of success with SQL and records, generation
\* failed, schema unavailable, connection unavailable and execution error,
\* and stays ended; and while it runs the model is called at most
\* max_retries times, pyodbc.connect at most its max_retries times, with a
\* sleep only between two connection attempts.
C21_Terminates ==
  /\ \A r \in Requests : (pc[r] # "idle") ~> (pc[r] = "done")
  /\ [](\A r \in Requests :
          /\ modelCalls[r] <= max_retries[r]
          /\ attempt[r] <= max_retries[r] + 1
          /\ connAttempts[r] <= conn_retries[r]
          /\ conn_attempt[r] <= conn_retries[r]
          /\ delays[r] <= connAttempts[r]
          /\ delays[r] < conn_retries[r] \/ conn_retries[r] = 0
          /\ pc[r] = "done" => Cardinality(Outcomes(r)) = 1
          /\ pc[r] # "done" => response[r] = NoResponse)
  /\ [][\A r \in Requests :
          pc[r] = "done" =>
            /\ pc'[r] = "done"
            /\ response'[r] = response[r]]_vars

\* C21 witness: a request has ended after MaxGenRetries calls of the model
\* of which the last gave a statement, and MaxConnRetries failed connection
\* attempts.
C21_Witness ==
  \E r \in Requests :
    /\ pc[r] = "done"
    /\ modelCalls[r] = MaxGenRetries
    /\ ~generated[r].none
    /\ connAttempts[r] = MaxConnRetries
    /\ delays[r] = MaxConnRetries - 1
    /\ Outcomes(r) = {"connection unavailable"}

\* The locals of the calls made for request r.
Locals(r) ==
  <<pc[r], schema_file[r], max_retries[r], attempt[r], raw_sql[r],
    sql_query[r], stages[r], modelCalls[r], failures[r], generated[r],
    credentials[r], conn_retries[r], conn_attempt[r], connAttempts[r], delays[r], slept[r],
    connection[r], executed[r], answer[r], exec_error[r], result[r],
    response[r]>>

\* C22: with two requests running at once in any interleaving, every step
\* is a step of one request and leaves the attempt counters, the statement,
\* the connection and every other local of the other request as they were.
\* Each request, whatever the other does, is given its own max_retries
\* calls of the model before it gives up and its own max_retries connection
\* attempts before it has no connection; the statement it returns is the
\* one its own attempt accepted; and the connection it closes is the one it
\* opened, on which it executed that statement and nothing else.
C22_RequestsIndependent ==
  /\ [][\E r \in Requests :
          \A q \in Requests \ {r} : Locals(q)' = Locals(q)]_vars
  /\ [][\A r \in Requests :
          /\ generated'[r] # generated[r] =>
               /\ pc[r] \in {"validate", "gen_loop"}
               /\ generated'[r] \in {None, Some(sql_query[r])}
          /\ connection'[r] # connection[r] =>
               \/ pc[r] = "connect" /\ connection'[r] = "open"
               \/ pc[r] = "close" /\ connection'[r] = "closed"]_vars
  /\ [](\A r \in Requests :
          /\ modelCalls[r] <= max_retries[r]
          /\ connAttempts[r] <= conn_retries[r]
          /\ GenerationExhausted(r) => modelCalls[r] = max_retries[r]
          /\ ConnectionExhausted(r) => connAttempts[r] = conn_retries[r]
          /\ connection[r] # "none" =>
               /\ pc[r] \in {"execute", "fetch", "close", "executed", "done"}
               /\ ~generated[r].none
          /\ \A i \in 1..Len(executed[r]) :
               /\ connection[r] # "none"
               /\ executed[r][i] = generated[r].val
          /\ connection[r] = "closed" => executed[r] = <<generated[r].val>>
          /\ response[r].status = 200 =>
               /\ response[r].sql_query = generated[r]
               /\ connection[r] = "closed")

\* C22 witness: both requests have ended, each with a statement of its own
\* on a connection it closed, the one after fewer calls of the model and
\* fewer connection attempts than the other.
C22_Witness ==
  /\ \A r \in Requests : pc[r] = "done" /\ connection[r] = "closed"
  /\ response["a"].status = 200
  /\ response["b"].status = 200
  /\ response["a"].sql_query # response["b"].sql_query
  /\ modelCalls["a"] < modelCalls["b"]
  /\ connAttempts["a"] < connAttempts["b"]

\* C23: when one of the four settings was not there, get_azure_connection
\* returned at once: pyodbc.connect was never called and time.sleep never,
\* no connection exists, execute_sql_query gave nothing without handing the
\* statement to a cursor, and the request is answered as one that could
\* not execute.
C23_MissingCredentials ==
  \A r \in Requests :
    /\ credentials[r] = "incomplete" =>
         /\ pc[r] \in {"executed", "done"}
         /\ conn_attempt[r] = 0
         /\ connAttempts[r] = 0
         /\ delays[r] = 0
         /\ slept[r] = 0
         /\ connection[r] = "none"
         /\ executed[r] = <<>>
         /\ result[r].none
         /\ pc[r] = "done" => response[r] = ConnectionUnavailable
    /\ credentials[r] = "complete" => conn_attempt[r] >= 1

\* C23 witness: a request ended whose statement was generated and whose
\* settings were incomplete.
C23_Witness ==
  \E r \in Requests :
    /\ pc[r] = "done"
    /\ ~generated[r].none
    /\ credentials[r] = "incomplete"

\* The answer of a request whose statement could not be executed.
ExecutionFailed ==
  HTTPException(500, "Failed to execute SQL or no results returned.")

\* C24: when the statement was executed and its rows were read, the request
\* is answered 200 with the accepted statement and one record per row, so
\* with an empty list of records when the statement gave no rows.  The
\* answer of a failed execution is given only when no connection was made
\* (settings incomplete, or every attempt failed) or the cursor raised an
\* exception.
C24_ZeroRowsIsSuccess ==
  \A r \in Requests :
    pc[r] = "done" =>
      /\ (~result[r].none /\ Len(result[r].rows) = 0) =>
           /\ response[r] = QueryResponse(generated[r].val, <<>>)
           /\ response[r].status = 200
           /\ response[r].sql_query = generated[r]
           /\ validate_sql_query(generated[r].val)
      /\ ~result[r].none =>
           /\ response[r].status = 200
           /\ Len(response[r].results) = Len(result[r].rows)
      /\ response[r] = ExecutionFailed =>
           /\ result[r].none
           /\ \/ /\ connection[r] = "none"
                 /\ \/ credentials[r] = "incomplete"
                    \/ connAttempts[r] = conn_retries[r]
              \/ /\ connection[r] = "open"
                 /\ exec_error[r] \in BackendErrors
      /\ (connection[r] = "closed" /\ exec_error[r] = NoError) =>
           response[r] # ExecutionFailed

\* C24 witness: a request ended whose statement was executed and gave no
\* rows.
C24_Witness ==
  \E r \in Requests :
    /\ pc[r] = "done"
    /\ connection[r] = "closed"
    /\ ~result[r].none
    /\ Len(result[r].rows) = 0
    /\ response[r].status = 200
    /\ response[r].results = <<>>

=============================================================================
